---- MODULE Spec2Model ----
(***************************************************************************)
(* Session / request layer of the Pharmaventory dashboard (src/src/App.js).*)
(*                                                                         *)
(* JavaScript strings are modelled as sequences of atoms (an atom is a     *)
(* character or an indivisible piece of text), so "" is << >>, string      *)
(* concatenation is \o and String.split works on the atoms.  JavaScript    *)
(* values are records tagged by the field k.  Text that crosses a          *)
(* serialisation boundary (sessionStorage, HTTP bodies) is a sequence of   *)
(* lexical tokens produced by JSONstringify and read back by JSONparse.    *)
(***************************************************************************)
EXTENDS Integers, Sequences, FiniteSets, TLC

----------------------------------------------------------------------------
(* JavaScript values *)

Null == [k |-> "null"]

Undefined == [k |-> "undefined"]

Str(s) == [k |-> "str", s |-> s]

\* an object is its list of <<key, value>> members in insertion order
Obj(members) == [k |-> "obj", m |-> members]

Arr(items) == [k |-> "arr", items |-> items]

Num(n) == [k |-> "num", n |-> n]

EmptyString == Str(<< >>)

\* Boolean(v)
Truthy(v) ==
  CASE v.k = "null" -> FALSE
    [] v.k = "undefined" -> FALSE
    [] v.k = "str" -> Len(v.s) > 0
    [] v.k = "num" -> v.n # 0
    [] OTHER -> TRUE

\* a || b
OrElse(a, b) == IF Truthy(a) THEN a ELSE b

RECURSIVE Lookup(_, _, _)
Lookup(members, key, i) ==
  IF i = 0 THEN Undefined
  ELSE IF members[i][1] = key THEN members[i][2]
  ELSE Lookup(members, key, i - 1)

\* v?.key : undefined on null/undefined, the member on an object, and
\* undefined on strings and arrays (which have no such property)
OptGet(v, key) ==
  IF v.k = "obj" THEN Lookup(v.m, key, Len(v.m)) ELSE Undefined

\* v.key throws a TypeError on null and undefined
CanGet(v) == v.k \notin {"null", "undefined"}

\* String(v), as new Error(v).message and template literals compute it
ToStringJS(v) ==
  CASE v.k = "str" -> v.s
    [] v.k = "num" -> <<ToString(v.n)>>
    [] v.k = "null" -> <<"null">>
    [] v.k = "undefined" -> <<"undefined">>
    [] v.k = "arr" -> <<"[array]">>
    [] OTHER -> <<"[object Object]">>

----------------------------------------------------------------------------
(* JSON text: a sequence of tokens.  "'" delimits a string, "{" "}" and    *)
(* "[" "]" bracket objects and arrays, an object member is its key token   *)
(* followed by its value, "#" announces a number written in decimal.       *)

\* the numbers the decimal reader knows
Numerals == 0..20

\* how each of them is written
Decimal == [n \in Numerals |-> ToString(n)]

\* and how each written number is read back
Numeral ==
  [d \in {Decimal[n] : n \in Numerals} |-> CHOOSE n \in Numerals : Decimal[n] = d]

RECURSIVE JSONstringify(_)
RECURSIVE StringifyMembers(_, _)
RECURSIVE StringifyItems(_, _)

\* members whose value is undefined are left out
StringifyMembers(members, i) ==
  IF i > Len(members) THEN << >>
  ELSE (IF members[i][2].k = "undefined" THEN << >>
        ELSE <<members[i][1]>> \o JSONstringify(members[i][2]))
       \o StringifyMembers(members, i + 1)

\* an undefined array element is written as null
StringifyItems(items, i) ==
  IF i > Len(items) THEN << >>
  ELSE (IF items[i].k = "undefined" THEN <<"null">> ELSE JSONstringify(items[i]))
       \o StringifyItems(items, i + 1)

JSONstringify(v) ==
  CASE v.k = "null" -> <<"null">>
    [] v.k = "str" -> <<"'">> \o v.s \o <<"'">>
    [] v.k = "num" -> <<"#", Decimal[v.n]>>
    [] v.k = "obj" -> <<"{">> \o StringifyMembers(v.m, 1) \o <<"}">>
    [] v.k = "arr" -> <<"[">> \o StringifyItems(v.items, 1) \o <<"]">>
    [] OTHER -> << >>

Punctuation == {"'", "{", "}", "[", "]", "null", "#"}

ParseFail == [ok |-> FALSE, v |-> Undefined, next |-> 0]

RECURSIVE ParseValue(_, _)
RECURSIVE ParseString(_, _, _)
RECURSIVE ParseMembers(_, _, _)
RECURSIVE ParseItems(_, _, _)

ParseString(raw, i, acc) ==
  IF i > Len(raw) THEN ParseFail
  ELSE IF raw[i] = "'" THEN [ok |-> TRUE, v |-> Str(acc), next |-> i + 1]
  ELSE ParseString(raw, i + 1, Append(acc, raw[i]))

ParseMembers(raw, i, acc) ==
  IF i > Len(raw) THEN ParseFail
  ELSE IF raw[i] = "}" THEN [ok |-> TRUE, v |-> Obj(acc), next |-> i + 1]
  ELSE IF raw[i] \in Punctuation THEN ParseFail
  ELSE LET val == ParseValue(raw, i + 1)
       IN IF val.ok THEN ParseMembers(raw, val.next, Append(acc, <<raw[i], val.v>>))
          ELSE ParseFail

ParseItems(raw, i, acc) ==
  IF i > Len(raw) THEN ParseFail
  ELSE IF raw[i] = "]" THEN [ok |-> TRUE, v |-> Arr(acc), next |-> i + 1]
  ELSE LET val == ParseValue(raw, i)
       IN IF val.ok THEN ParseItems(raw, val.next, Append(acc, val.v))
          ELSE ParseFail

ParseValue(raw, i) ==
  IF i > Len(raw) THEN ParseFail
  ELSE CASE raw[i] = "null" -> [ok |-> TRUE, v |-> Null, next |-> i + 1]
         [] raw[i] = "'" -> ParseString(raw, i + 1, << >>)
         [] raw[i] = "#" ->
              IF i < Len(raw) /\ raw[i + 1] \in DOMAIN Numeral
              THEN [ok |-> TRUE, next |-> i + 2, v |-> Num(Numeral[raw[i + 1]])]
              ELSE ParseFail
         [] raw[i] = "{" -> ParseMembers(raw, i + 1, << >>)
         [] raw[i] = "[" -> ParseItems(raw, i + 1, << >>)
         [] OTHER -> ParseFail

\* JSON.parse(raw): ok is FALSE where it throws a SyntaxError
JSONparse(raw) ==
  LET p == ParseValue(raw, 1)
  IN IF p.ok /\ p.next = Len(raw) + 1 THEN [ok |-> TRUE, v |-> p.v]
     ELSE [ok |-> FALSE, v |-> Undefined]

----------------------------------------------------------------------------
(* HTTP: what fetch() gives back.  arrived is FALSE when fetch() itself    *)
(* rejects (network / transport failure, a TypeError).                     *)

Response(status, body) == [arrived |-> TRUE, status |-> status, body |-> body]

NetworkFailure == [arrived |-> FALSE, status |-> 0, body |-> << >>]

NetworkErrorMessage == <<"Failed to fetch">>

SyntaxErrorMessage == <<"Unexpected token in JSON">>

TypeErrorMessage == <<"Cannot read properties of null">>

\* response.ok
ResponseOk(r) == r.status >= 200 /\ r.status <= 299

\* the settled state of a promise
Resolve(v) == [k |-> "resolve", v |-> v, message |-> << >>]

Reject(message) == [k |-> "reject", v |-> Undefined, message |-> message]

\* await response.json()
responseJson(r) ==
  LET p == JSONparse(r.body)
  IN IF p.ok THEN Resolve(p.v) ELSE Reject(SyntaxErrorMessage)

safeJson(r) ==
  LET j == responseJson(r)
  IN IF j.k = "resolve" THEN j.v ELSE Null

----------------------------------------------------------------------------
(* fetchWithAuth *)

HeaderNames == {"Content-Type", "Authorization"}

NoHeaders == [n \in {} |-> << >>]

\* options = {} by default; headers absent means options.headers is undefined
NoOptions == [hasHeaders |-> FALSE, headers |-> NoHeaders]

\* { "Content-Type": "application/json", ...(options.headers || {}) }
\* (in an object literal a later member replaces an earlier one of that name)
SpreadHeaders(options) ==
  (IF options.hasHeaders THEN options.headers ELSE NoHeaders)
    @@ ("Content-Type" :> <<"application/json">>)

\* the headers handed to fetch(): { ...options, headers }
RequestHeaders(tok, options) ==
  IF Truthy(tok)
  THEN ("Authorization" :> (<<"Bearer ">> \o ToStringJS(tok))) @@ SpreadHeaders(options)
  ELSE SpreadHeaders(options)

\* `Request failed (${response.status})`
RequestFailed(status) == <<"Request failed (", ToString(status), ")">>

\* an error message that looks at the message field before the detail field
ErrorMessagePreferringMessage(r) ==
  LET detail == safeJson(r)
  IN ToStringJS(OrElse(OrElse(OptGet(detail, "message"), OptGet(detail, "detail")),
                       Str(RequestFailed(r.status))))

\* the error thrown for a response that is not ok
ErrorMessage(r) ==
  LET detail == safeJson(r)
  IN ToStringJS(OrElse(OrElse(OptGet(detail, "detail"), OptGet(detail, "message")),
                       Str(RequestFailed(r.status))))

\* a gateway without the 204 case: every successful body is parsed
fetchWithAuthParsingNoContent(r) ==
  IF ~r.arrived THEN Reject(NetworkErrorMessage)
  ELSE IF ~ResponseOk(r) THEN Reject(ErrorMessage(r))
  ELSE responseJson(r)

\* what the promise returned by fetchWithAuth settles to, given what fetch() gave
fetchWithAuth(r) ==
  IF ~r.arrived THEN Reject(NetworkErrorMessage)
  ELSE IF ~ResponseOk(r) THEN Reject(ErrorMessage(r))
  ELSE IF r.status = 204 THEN Resolve(Null)
  ELSE responseJson(r)

----------------------------------------------------------------------------
(* Bounds and the data the backend and the browser may supply *)

\* how many times the login / register form is submitted
MaxSubmits == 1

Tokens == {Str(<<"t1">>), Str(<<"t2">>)}

Profile(fullName) == Obj(<< <<"full_name", Str(fullName)>> >>)

\* the account the backend knows for each token
ProfileOf(tok) ==
  IF tok = Str(<<"t1">>) THEN Profile(<<"Ada", " ", "Lovelace">>)
  ELSE Profile(<<" ", "Bo">>)

\* a row of the inventory; reorder is a number, or null when it is unset
Medicine(name, generic, category, quantity, reorder) ==
  Obj(<< <<"name", Str(name)>>, <<"generic_name", Str(generic)>>,
         <<"category", Str(category)>>, <<"quantity", Num(quantity)>>,
         <<"reorder_level", reorder>> >>)

\* the list the backend holds when the page is opened
Inventory == Arr(<<Medicine(<<"A", "s", "a">>, <<"a", "c">>, <<"o", "t", "c">>, 3, Num(10))>>)

\* the dashboard figures the backend computes from the list it holds: the
\* rows at or under their reorder level
Snapshot(items) ==
  Obj(<< <<"low_stock_items",
           Arr(SelectSeq(items.items,
                         LAMBDA row : OptGet(row, "quantity").n
                                        <= OrElse(OptGet(row, "reorder_level"), Num(10)).n))>> >>)

Session(tok, usr) == Obj(<< <<"token", tok>>, <<"user", usr>> >>)

ErrorBody(field, text) == JSONstringify(Obj(<< <<field, Str(text)>> >>))

Garbage == <<"<html>">>

\* answers that make a call fail
FailureResponses ==
  { Response(401, ErrorBody("detail", <<"Invalid credentials">>)),
    Response(500, Garbage),
    NetworkFailure }

\* the body of a successful login or registration
LoginBody(tok, usr) ==
  JSONstringify(Obj(<< <<"access_token", tok>>, <<"user", usr>> >>))

AuthResponses ==
  { Response(200, LoginBody(t, ProfileOf(t))) : t \in Tokens }
  \cup { Response(200, Garbage), Response(200, <<"null">>),
         Response(422, ErrorBody("message", <<"Bad input">>)) }
  \cup FailureResponses

Kinds == {"profile", "medicines", "analytics"}

Path(kind) ==
  CASE kind = "profile" -> "/api/auth/me"
    [] kind = "medicines" -> "/api/medicines"
    [] OTHER -> "/api/analytics/dashboard"

\* sessionStorage.getItem(AUTH_STORAGE_KEY): null when absent
Absent == [present |-> FALSE, raw |-> << >>]

Stored(raw) == [present |-> TRUE, raw |-> raw]

\* what the tab's sessionStorage may hold when the page is first loaded: nothing,
\* or a record this program did not write (a session it wrote is reached by
\* logging in and reloading)
InitialStorages ==
  { Absent,
    Stored(<<"{", "token">>),
    Stored(<<"null">>),
    Stored(JSONstringify(Obj(<< <<"user", Profile(<<"Ada", " ", "Lovelace">>)>> >>))) }

----------------------------------------------------------------------------
(* State *)

VARIABLES
  token, user, loading, medicines, analytics, authMode, toast, \* useState
  storage,    \* sessionStorage under AUTH_STORAGE_KEY
  timers,     \* pending setTimeout callbacks of showToast
  inflight,   \* calls of the fetchData effect awaiting their response
  authReq,    \* the handleAuthSubmit call awaiting its response
  failed,     \* fetchData runs whose Promise.all has rejected
  nextBatch,  \* number of the next fetchData run
  mounted,    \* the mount effects have run
  uncaught,   \* an error has left a handler or an effect uncaught
  submits,    \* submissions of the login / register form so far
  persisted,  \* history: the session last handed to sessionStorage.setItem
  gw,         \* one gateway call in isolation (SpecGateway)
  medicineForm, searchQuery,  \* useState
  createReq,  \* the handleCreateMedicine call awaiting a response
  creates,    \* submissions of the add-medicine form so far
  server      \* the inventory list the backend holds


vars == <<token, user, loading, medicines, analytics, authMode, toast, storage,
          timers, inflight, authReq, failed, nextBatch, mounted, uncaught,
          submits, persisted, gw, medicineForm, searchQuery, createReq, creates,
          server>>

\* the state of the inventory page and of the backend behind it
inventoryVars == <<medicineForm, searchQuery, createReq, creates, server>>

\* what the backend holds for a call of the fetchData effect
ServedValue(req) ==
  CASE req.kind = "profile" -> ProfileOf(req.tok)
    [] req.kind = "medicines" -> server
    [] OTHER -> Snapshot(server)

OkResponse(req) == Response(200, JSONstringify(ServedValue(req)))

\* what the backend may answer to a call of the fetchData effect
FetchResponses(req) ==
  { OkResponse(req),
    Response(204, << >>),
    Response(401, ErrorBody("detail", <<"Invalid credentials">>)),
    NetworkFailure }

authenticated == Truthy(token)

Toast(message, variant) == [k |-> "toast", message |-> message, variant |-> variant]

NoAuthReq == [pending |-> FALSE, mode |-> Null]

NotPersisted == [set |-> FALSE, token |-> Undefined, user |-> Undefined]

Persisted(tok, usr) == [set |-> TRUE, token |-> tok, user |-> usr]

\* the date six months from today, as the date input writes it
DefaultExpiry == <<"today+6m">>

\* useState({ name: "", ..., description: "" }) of medicineForm
DefaultForm ==
  [name |-> EmptyString, generic_name |-> EmptyString, category |-> EmptyString,
   manufacturer |-> EmptyString, quantity |-> Num(0), unit |-> Str(<<"units">>),
   reorder_level |-> Num(10), unit_price |-> Num(0), batch_number |-> EmptyString,
   expiry_date |-> Str(DefaultExpiry), location |-> EmptyString,
   description |-> EmptyString]

\* no handleCreateMedicine call is under way
NoCreate == [phase |-> "none", tok |-> EmptyString, form |-> DefaultForm]

\* a gateway call: its arguments, the headers it sent, what fetch() gave back
\* and what the call settled to
GwCall(phase, path, options) ==
  [phase |-> phase, path |-> path, options |-> options,
   headers |-> NoHeaders, r |-> NetworkFailure, outcome |-> Resolve(Undefined)]

GwIdle == GwCall("none", "", NoOptions)

----------------------------------------------------------------------------
(* Pieces of the component *)

\* const showToast = ...: the notice and one more pending timer
showToast(message, variant) ==
  /\ toast' = Toast(message, variant)
  /\ timers' = timers + 1

\* a restore that adopts the token and forgets the stored user
restoreSessionForgettingUser(stored, tok, usr) ==
  LET same == [token |-> tok, user |-> usr, caught |-> FALSE, raised |-> FALSE]
  IN IF ~stored.present \/ Len(stored.raw) = 0 THEN same
     ELSE LET p == JSONparse(stored.raw)
          IN IF ~p.ok \/ ~CanGet(p.v) THEN [same EXCEPT !.caught = TRUE]
             ELSE IF Truthy(OptGet(p.v, "token"))
                  THEN [same EXCEPT !.token = OptGet(p.v, "token"), !.user = Null]
                  ELSE same

\* the restore effect: what it leaves in token and user, whether its catch
\* ran (caught, which only logs) and whether an error left the effect (raised)
restoreSession(stored, tok, usr) ==
  LET same == [token |-> tok, user |-> usr, caught |-> FALSE, raised |-> FALSE]
  IN IF ~stored.present \/ Len(stored.raw) = 0 THEN same
     ELSE LET p == JSONparse(stored.raw)
          IN IF ~p.ok \/ ~CanGet(p.v) THEN [same EXCEPT !.caught = TRUE]
             ELSE IF Truthy(OptGet(p.v, "token"))
                  THEN [same EXCEPT !.token = OptGet(p.v, "token"),
                                    !.user = OrElse(OptGet(p.v, "user"), Null)]
                  ELSE same

\* a warm-up that leaves the analytics call out
fetchDataWithoutAnalytics(tok, batch) ==
  {[kind |-> kd, tok |-> tok, batch |-> batch] : kd \in Kinds \ {"analytics"}}

\* Promise.all([fetchProfile(), fetchMedicines(), fetchAnalytics()]): the three
\* calls go out together, each through the fetchWithAuth of this render (tok)
fetchData(tok, batch) == {[kind |-> kd, tok |-> tok, batch |-> batch] : kd \in Kinds}

\* useEffect(..., [token]): runs after a render whose token differs from the
\* one before, and returns at once when the token is falsy
tokenEffect(changed, tok, batch) ==
  IF changed /\ Truthy(tok) THEN fetchData(tok, batch) ELSE {}

\* handleAuthSubmit from the response on, up to the state updates
authResult(r) ==
  LET fail(message) ==
        [ok |-> FALSE, token |-> Undefined, user |-> Undefined, message |-> message]
  IN IF ~r.arrived THEN fail(NetworkErrorMessage)
     ELSE IF ~ResponseOk(r)
          THEN fail(ToStringJS(OrElse(OptGet(safeJson(r), "detail"),
                                      Str(<<"Authentication failed">>))))
          ELSE LET j == responseJson(r)
               IN IF j.k = "reject" THEN fail(j.message)
                  ELSE IF ~CanGet(j.v) THEN fail(TypeErrorMessage)
                  ELSE [ok |-> TRUE, token |-> OptGet(j.v, "access_token"),
                        user |-> OptGet(j.v, "user"), message |-> << >>]

\* "abc def".split(" ")[0]: the atoms before the first " "
RECURSIVE SplitFirst(_, _)
SplitFirst(s, i) ==
  IF i > Len(s) \/ s[i] = " " THEN SubSeq(s, 1, i - 1) ELSE SplitFirst(s, i + 1)

\* `Hey, ${user?.full_name?.split(" ")[0] || "User"}`
greeting(usr) ==
  LET fullName == OptGet(usr, "full_name")
      first == IF fullName.k = "str" THEN Str(SplitFirst(fullName.s, 1)) ELSE Undefined
  IN <<"Hey, ">> \o ToStringJS(OrElse(first, Str(<<"User">>)))

SuccessNotice(mode) ==
  IF mode = Str(<<"register">>) THEN <<"Registration successful">>
  ELSE <<"Logged in successfully">>

----------------------------------------------------------------------------
(* Initial state: the useState initial values, before the mount effects *)

Init ==
  /\ token = EmptyString
  /\ user = Null
  /\ loading = FALSE
  /\ medicines = Arr(<< >>)
  /\ analytics = Null
  /\ authMode = Null
  /\ toast = Null
  /\ storage \in InitialStorages
  /\ timers = 0
  /\ inflight = {}
  /\ authReq = NoAuthReq
  /\ failed = {}
  /\ nextBatch = 1
  /\ mounted = FALSE
  /\ uncaught = FALSE
  /\ submits = 0
  /\ persisted = NotPersisted
  /\ gw = GwIdle
  /\ medicineForm = DefaultForm
  /\ searchQuery = EmptyString
  /\ createReq = NoCreate
  /\ creates = 0
  /\ server = Inventory

----------------------------------------------------------------------------
(* Operations.  State updates made in one handler or continuation are      *)
(* applied together, and the effects they trigger run before the next      *)
(* event.  Painting the state is outside the model.                        *)

\* first render: the [authenticated] effect, the restore effect, and the
\* [token] effect of the render that follows a restored token
Mount ==
  /\ ~mounted
  /\ LET s == restoreSession(storage, token, user)
         issued == tokenEffect(s.token # token, s.token, nextBatch)
     IN /\ token' = s.token
        /\ user' = s.user
        /\ uncaught' = s.raised
        /\ inflight' = inflight \cup issued
        /\ nextBatch' = (IF issued = {} THEN nextBatch ELSE nextBatch + 1)
  /\ authMode' = Null
  /\ mounted' = TRUE
  /\ UNCHANGED <<loading, medicines, analytics, toast, storage, timers, authReq,
                 failed, submits, persisted, gw>>
  /\ UNCHANGED inventoryVars

\* the landing page's buttons and the modal's close button
SetAuthMode(mode) ==
  /\ mounted /\ ~authenticated
  /\ mode # authMode
  /\ authMode' = mode
  /\ UNCHANGED <<token, user, loading, medicines, analytics, toast, storage,
                 timers, inflight, authReq, failed, nextBatch, mounted,
                 uncaught, submits, persisted, gw>>
  /\ UNCHANGED inventoryVars

\* handleAuthSubmit up to its await: the button is disabled while loading
SubmitAuth ==
  /\ mounted /\ ~authenticated
  /\ authMode # Null /\ ~loading
  /\ submits < MaxSubmits
  /\ submits' = submits + 1
  /\ loading' = TRUE
  /\ authReq' = [pending |-> TRUE, mode |-> authMode]
  /\ UNCHANGED <<token, user, medicines, analytics, authMode, toast, storage,
                 timers, inflight, failed, nextBatch, mounted, uncaught,
                 persisted, gw>>
  /\ UNCHANGED inventoryVars

\* a submit that resets the flag at the end of its try block only
settledLoadingWithoutFinally(o) == IF o.ok THEN FALSE ELSE loading

\* finally { setLoading(false) }
settledLoading(o) == FALSE

\* handleAuthSubmit from the response on
AuthSettle(r) ==
  /\ mounted /\ authReq.pending
  /\ LET o == authResult(r)
         issued == IF o.ok THEN tokenEffect(o.token # token, o.token, nextBatch)
                   ELSE {}
     IN /\ token' = (IF o.ok THEN o.token ELSE token)
        /\ user' = (IF o.ok THEN o.user ELSE user)
        /\ storage' = (IF o.ok THEN Stored(JSONstringify(Session(o.token, o.user)))
                       ELSE storage)
        /\ persisted' = (IF o.ok THEN Persisted(o.token, o.user) ELSE persisted)
        /\ IF o.ok THEN showToast(SuccessNotice(authReq.mode), "info")
           ELSE showToast(o.message, "error")
        /\ inflight' = inflight \cup issued
        /\ nextBatch' = (IF issued = {} THEN nextBatch ELSE nextBatch + 1)
        /\ loading' = settledLoading(o)
  /\ authReq' = NoAuthReq
  /\ UNCHANGED <<medicines, analytics, authMode, failed, mounted, uncaught,
                 submits, gw>>
  /\ UNCHANGED inventoryVars

\* a sign-out that forgets to drop the analytics snapshot
clearSessionKeepingSnapshot ==
  /\ token' = EmptyString
  /\ user' = Null
  /\ storage' = Absent
  /\ medicines' = Arr(<< >>)
  /\ analytics' = analytics

\* signOut's state updates and its removeItem
clearSession ==
  /\ token' = EmptyString
  /\ user' = Null
  /\ storage' = Absent
  /\ medicines' = Arr(<< >>)
  /\ analytics' = Null

\* the avatar of the dashboard; the [authenticated] effect then resets authMode
SignOut ==
  /\ mounted /\ authenticated
  /\ clearSession
  /\ showToast(<<"You have signed out.">>, "info")
  /\ authMode' = Null
  /\ persisted' = NotPersisted
  /\ UNCHANGED <<loading, inflight, authReq, failed, nextBatch, mounted,
                 uncaught, submits, gw>>
  /\ UNCHANGED inventoryVars

\* fetchProfile after its await
fetchProfile(req, profile) ==
  /\ user' = profile
  /\ storage' = Stored(JSONstringify(Session(req.tok, profile)))
  /\ persisted' = Persisted(req.tok, profile)
  /\ UNCHANGED <<medicines, analytics>>

\* fetchMedicines after its await
fetchMedicines(items) ==
  /\ medicines' = items
  /\ UNCHANGED <<user, analytics, storage, persisted>>

\* fetchAnalytics after its await
fetchAnalytics(data) ==
  /\ analytics' = data
  /\ UNCHANGED <<user, medicines, storage, persisted>>

\* one call of a fetchData run settles.  The first rejection of a run rejects
\* its Promise.all, whose catch logs; the other calls of the run go on.
FetchSettle(req, r) ==
  /\ mounted /\ req \in inflight
  /\ \E o \in {fetchWithAuth(r)} :
        /\ inflight' = inflight \ {req}
        /\ LET rejected == IF o.k = "reject" THEN failed \cup {req.batch} ELSE failed
           IN failed' = {b \in rejected : \E q \in inflight' : q.batch = b}
        /\ IF o.k = "reject"
           THEN UNCHANGED <<user, medicines, analytics, storage, persisted>>
           ELSE CASE req.kind = "profile" -> fetchProfile(req, o.v)
                  [] req.kind = "medicines" -> fetchMedicines(o.v)
                  [] OTHER -> fetchAnalytics(o.v)
  /\ UNCHANGED <<token, loading, authMode, toast, timers, authReq, nextBatch,
                 mounted, uncaught, submits, gw>>
  /\ UNCHANGED inventoryVars

\* setTimeout(() => setToast(null), 4000) comes due
TimerFire ==
  /\ mounted /\ timers > 0
  /\ timers' = timers - 1
  /\ toast' = Null
  /\ UNCHANGED <<token, user, loading, medicines, analytics, authMode, storage,
                 inflight, authReq, failed, nextBatch, mounted, uncaught,
                 submits, persisted, gw>>
  /\ UNCHANGED inventoryVars

\* the page is loaded again: a new component, the same sessionStorage
Reload ==
  /\ mounted
  /\ token' = EmptyString
  /\ user' = Null
  /\ loading' = FALSE
  /\ medicines' = Arr(<< >>)
  /\ analytics' = Null
  /\ authMode' = Null
  /\ toast' = Null
  /\ timers' = 0
  /\ inflight' = {}
  /\ authReq' = NoAuthReq
  /\ failed' = {}
  /\ nextBatch' = 1
  /\ mounted' = FALSE
  /\ uncaught' = FALSE
  /\ medicineForm' = DefaultForm
  /\ searchQuery' = EmptyString
  /\ createReq' = NoCreate
  /\ UNCHANGED <<storage, submits, persisted, gw, creates, server>>

Next ==
  \/ Mount
  \/ \E mode \in {Null, Str(<<"login">>), Str(<<"register">>)} : SetAuthMode(mode)
  \/ SubmitAuth
  \/ \E r \in AuthResponses : AuthSettle(r)
  \/ SignOut
  \/ \E req \in inflight : \E r \in FetchResponses(req) : FetchSettle(req, r)
  \/ TimerFire
  \/ Reload

Spec == Init /\ [][Next]_vars

----------------------------------------------------------------------------
(* The gateway on its own: fetchWithAuth called with any options under any *)
(* token, and answered in any way.                                         *)

CallerValue(name) ==
  IF name = "Authorization" THEN <<"Basic abc">> ELSE <<"text/plain">>

\* the options a caller may pass: none, or headers naming any of HeaderNames
GwOptions ==
  {NoOptions} \cup
  {[hasHeaders |-> TRUE, headers |-> [n \in S |-> CallerValue(n)]] :
     S \in SUBSET HeaderNames}

\* an error body as backends write it: either field may be missing
ErrorJson(detail, message) ==
  JSONstringify(Obj(<< <<"detail", detail>>, <<"message", message>> >>))

DetailChoices == {Undefined, EmptyString, Str(<<"Not authenticated">>)}

MessageChoices == {Undefined, Str(<<"Server says no">>)}

GwBodies ==
  {ErrorJson(d, m) : d \in DetailChoices, m \in MessageChoices}
  \cup {Garbage, << >>, <<"null">>, JSONstringify(Inventory)}

GwStatuses == {200, 201, 204, 401, 500}

GwResponses ==
  {Response(st, b) : st \in GwStatuses, b \in GwBodies} \cup {NetworkFailure}

GwInit ==
  /\ token \in {EmptyString} \cup Tokens
  /\ user = Null
  /\ loading = FALSE
  /\ medicines = Arr(<< >>)
  /\ analytics = Null
  /\ authMode = Null
  /\ toast = Null
  /\ storage = Absent
  /\ timers = 0
  /\ inflight = {}
  /\ authReq = NoAuthReq
  /\ failed = {}
  /\ nextBatch = 1
  /\ mounted = TRUE
  /\ uncaught = FALSE
  /\ submits = 0
  /\ persisted = NotPersisted
  /\ gw \in {GwCall("called", Path(kd), o) : kd \in Kinds, o \in GwOptions}
  /\ medicineForm = DefaultForm
  /\ searchQuery = EmptyString
  /\ createReq = NoCreate
  /\ creates = 0
  /\ server = Inventory

appVars == <<token, user, loading, medicines, analytics, authMode, toast, storage,
             timers, inflight, authReq, failed, nextBatch, mounted, uncaught,
             submits, persisted, medicineForm, searchQuery, createReq, creates,
             server>>

\* fetchWithAuth up to its await: the request leaves with its headers
GwSend ==
  /\ gw.phase = "called"
  /\ gw' = [gw EXCEPT !.phase = "sent", !.headers = RequestHeaders(token, gw.options)]
  /\ UNCHANGED appVars

\* fetchWithAuth after its await
GwReceive(r) ==
  /\ gw.phase = "sent"
  /\ gw' = [gw EXCEPT !.phase = "settled", !.r = r, !.outcome = fetchWithAuth(r)]
  /\ UNCHANGED appVars

GwNext ==
  \/ GwSend
  \/ \E r \in GwResponses : GwReceive(r)

SpecGateway == GwInit /\ [][GwNext]_vars

----------------------------------------------------------------------------
(* The inventory page: the add-medicine form, behind a session that is     *)
(* already signed in.                                                      *)

\* how many times the add-medicine form is submitted
MaxCreates == 1

\* Number(value) of what a number input holds: "" is 0, digits are decimal
RECURSIVE NumberOf(_, _, _)
NumberOf(value, i, acc) ==
  IF i > Len(value) THEN acc
  ELSE NumberOf(value, i + 1,
                10 * acc + (CHOOSE d \in 0..9 : ToString(d) = value[i]))

NumericFields == {"quantity", "reorder_level", "unit_price"}

\* what the user types into which field of the form
FormInputs ==
  { <<"name", <<"Z", "n">> >>, <<"name", << >> >>,
    <<"generic_name", <<"z", "i", "n", "c">> >>, <<"generic_name", << >> >>,
    <<"category", <<"o", "t", "c">> >>, <<"category", << >> >>,
    <<"quantity", <<"5">> >>, <<"quantity", << >> >>,
    <<"unit", <<"boxes">> >>, <<"unit", <<"units">> >>,
    <<"expiry_date", <<"tomorrow">> >>, <<"expiry_date", DefaultExpiry>> }

\* the fields the form's controls mark as required
RequiredFields == {"name", "generic_name", "category", "expiry_date"}

\* dayjs(medicineForm.expiry_date).toISOString()
toISOString(date) == Str(date.s \o <<"T00:00:00.000Z">>)

\* JSON.stringify({ ...medicineForm, expiry_date: ... }), the body of the POST
PostBody(form) ==
  JSONstringify(Obj(<< <<"name", form.name>>, <<"generic_name", form.generic_name>>,
                      <<"category", form.category>>,
                      <<"manufacturer", form.manufacturer>>,
                      <<"quantity", form.quantity>>, <<"unit", form.unit>>,
                      <<"reorder_level", form.reorder_level>>,
                      <<"unit_price", form.unit_price>>,
                      <<"batch_number", form.batch_number>>,
                      <<"expiry_date", toISOString(form.expiry_date)>>,
                      <<"location", form.location>>,
                      <<"description", form.description>> >>))

\* the row the backend keeps for a POST body
CreatedRow(body) ==
  LET sent == JSONparse(body).v
  IN Obj(<< <<"name", OptGet(sent, "name")>>,
            <<"generic_name", OptGet(sent, "generic_name")>>,
            <<"category", OptGet(sent, "category")>>,
            <<"quantity", OptGet(sent, "quantity")>>,
            <<"reorder_level", OptGet(sent, "reorder_level")>> >>)

Unauthorized == Response(401, ErrorBody("detail", <<"Invalid credentials">>))

\* what the backend may answer to the POST
PostResponses(form) ==
  { Response(201, JSONstringify(CreatedRow(PostBody(form)))),
    Unauthorized,
    NetworkFailure }

\* the GET /api/medicines that fetchMedicines issues from handleCreateMedicine
RefetchCall == [kind |-> "medicines", tok |-> createReq.tok, batch |-> 0]

\* setMedicineForm((current) => ({ ...current, name: "", ... }))
resetForm(current) ==
  [current EXCEPT !.name = EmptyString, !.generic_name = EmptyString,
                  !.category = EmptyString, !.manufacturer = EmptyString,
                  !.quantity = Num(0), !.reorder_level = Num(10),
                  !.unit_price = Num(0), !.batch_number = EmptyString,
                  !.location = EmptyString, !.description = EmptyString]

\* const lowStock = analytics?.low_stock_items || []
lowStock(data) == OrElse(OptGet(data, "low_stock_items"), Arr(<< >>))

\* a flag that compares with the reorder level as it is, unset or 0 included
isLowStockWithoutDefault(medicine) ==
  LET level == OptGet(medicine, "reorder_level")
  IN OptGet(medicine, "quantity").n <= (IF level.k = "num" THEN level.n ELSE 0)

\* medicine.quantity <= (medicine.reorder_level || 10)
isLowStock(medicine) ==
  LET level == OrElse(OptGet(medicine, "reorder_level"), Num(10))
  IN OptGet(medicine, "quantity").n <= level.n

sessionVars == <<token, user, loading, analytics, authMode, storage, inflight,
                 authReq, failed, nextBatch, mounted, uncaught, submits,
                 persisted, gw>>

\* the dashboard of a session that has just been opened: profile and
\* analytics are in, the list of the warm-up is still on its way
InventoryInit ==
  /\ token = Str(<<"t1">>)
  /\ user = ProfileOf(token)
  /\ loading = FALSE
  /\ medicines = Arr(<< >>)
  /\ server = Inventory
  /\ analytics = Snapshot(server)
  /\ authMode = Null
  /\ toast = Null
  /\ storage = Stored(JSONstringify(Session(token, user)))
  /\ timers = 0
  /\ inflight = {[kind |-> "medicines", tok |-> token, batch |-> 1]}
  /\ authReq = NoAuthReq
  /\ failed = {}
  /\ nextBatch = 2
  /\ mounted = TRUE
  /\ uncaught = FALSE
  /\ submits = 1
  /\ persisted = Persisted(token, user)
  /\ gw = GwIdle
  /\ medicineForm = DefaultForm
  /\ searchQuery = EmptyString
  /\ createReq = NoCreate
  /\ creates = 0

\* handleMedicineChange
handleMedicineChange(name, value) ==
  /\ mounted /\ authenticated
  /\ medicineForm' =
       [medicineForm EXCEPT ![name] = IF name \in NumericFields
                                      THEN Num(NumberOf(value, 1, 0))
                                      ELSE Str(value)]
  /\ medicineForm' # medicineForm
  /\ UNCHANGED <<searchQuery, createReq, creates, server, medicines, toast, timers>>
  /\ UNCHANGED sessionVars

\* handleCreateMedicine up to its first await: the form is on the dashboard
\* only, and its controls refuse a submit with a required field empty
CreateSubmit ==
  /\ mounted /\ authenticated
  /\ createReq.phase = "none"
  /\ creates < MaxCreates
  /\ creates' = creates + 1
  /\ \A f \in RequiredFields : Truthy(medicineForm[f])
  /\ createReq' = [phase |-> "post", tok |-> token, form |-> medicineForm]
  /\ UNCHANGED <<medicineForm, searchQuery, server, medicines, toast, timers>>
  /\ UNCHANGED sessionVars

\* a catch that logs the error and shows nothing
createFailedSilently(message) ==
  /\ createReq' = NoCreate
  /\ UNCHANGED <<medicineForm, medicines, toast, timers>>

\* the catch of handleCreateMedicine
createFailed(message) ==
  /\ showToast(message, "error")
  /\ createReq' = NoCreate
  /\ UNCHANGED <<medicineForm, medicines>>

\* handleCreateMedicine after the POST was answered; a 2xx answer means the
\* backend has added the row
CreatePosted(r) ==
  /\ mounted /\ createReq.phase = "post"
  /\ server' = (IF r.arrived /\ ResponseOk(r)
                THEN Arr(Append(server.items, CreatedRow(PostBody(createReq.form))))
                ELSE server)
  /\ IF fetchWithAuth(r).k = "reject"
     THEN createFailed(fetchWithAuth(r).message)
     ELSE /\ showToast(<<"Medicine added">>, "info")
          /\ createReq' = [createReq EXCEPT !.phase = "refetch"]
          /\ UNCHANGED <<medicineForm, medicines>>
  /\ UNCHANGED <<searchQuery, creates>>
  /\ UNCHANGED sessionVars

\* handleCreateMedicine after its fetchMedicines() was answered
CreateRefetched(r) ==
  /\ mounted /\ createReq.phase = "refetch"
  /\ IF fetchWithAuth(r).k = "reject"
     THEN /\ createFailed(fetchWithAuth(r).message)
     ELSE /\ medicines' = fetchWithAuth(r).v
          /\ medicineForm' = resetForm(medicineForm)
          /\ createReq' = NoCreate
          /\ UNCHANGED <<toast, timers>>
  /\ UNCHANGED <<searchQuery, creates, server>>
  /\ UNCHANGED sessionVars

InventoryNext ==
  \/ \E in \in FormInputs : handleMedicineChange(in[1], in[2])
  \/ CreateSubmit
  \/ \E r \in PostResponses(createReq.form) : CreatePosted(r)
  \/ \E r \in FetchResponses(RefetchCall) : CreateRefetched(r)
  \/ \E req \in inflight : \E r \in FetchResponses(req) : FetchSettle(req, r)
  \/ TimerFire

SpecInventory == InventoryInit /\ [][InventoryNext]_vars

----------------------------------------------------------------------------
(* The derived views of the inventory page: the search filter and the      *)
(* low-stock flag of a row, over any list the backend may have served.     *)

\* how long a served list is
MaxRows == 2

\* upper-case letters and their lower-case forms
LowerOf == ("A" :> "a") @@ ("S" :> "s") @@ ("Z" :> "z")

\* s.toLowerCase()
toLowerCase(s) ==
  [i \in 1..Len(s) |-> IF s[i] \in DOMAIN LowerOf THEN LowerOf[s[i]] ELSE s[i]]

\* s.includes(q): the first position from i on at which q starts, if any
RECURSIVE includes(_, _, _)
includes(s, q, i) ==
  IF i + Len(q) - 1 > Len(s) THEN FALSE
  ELSE IF SubSeq(s, i, i + Len(q) - 1) = q THEN TRUE
  ELSE includes(s, q, i + 1)

\* a filter that compares the letters as they are written
matchesCaseSensitive(med, q) ==
  \/ includes(OptGet(med, "name").s, q.s, 1)
  \/ includes(OptGet(med, "generic_name").s, q.s, 1)
  \/ includes(OptGet(med, "category").s, q.s, 1)

\* the callback of medicines.filter
matches(med, q) ==
  \/ includes(toLowerCase(OptGet(med, "name").s), toLowerCase(q.s), 1)
  \/ includes(toLowerCase(OptGet(med, "generic_name").s), toLowerCase(q.s), 1)
  \/ includes(toLowerCase(OptGet(med, "category").s), toLowerCase(q.s), 1)

\* const filteredMedicines = medicines.filter(...)
filteredMedicines ==
  Arr(SelectSeq(medicines.items, LAMBDA med : matches(med, searchQuery)))

\* the rows a served list is made of
Rows ==
  { Medicine(<<"A", "s", "a">>, <<"a", "c">>, <<"o", "t", "c">>, 3, Num(10)),
    Medicine(<<"Z", "n">>, <<"z", "i", "n", "c">>, <<"o", "t", "c">>, 11, Null),
    Medicine(<<"b">>, <<"a", "S">>, <<"r", "x">>, 10, Num(0)),
    Medicine(<<"c">>, <<"d">>, <<"S", "A">>, 5, Num(4)),
    Medicine(<<"s", "a">>, <<"z">>, <<"r", "x">>, 0, Num(0)) }

RowLists == UNION {[1..n -> Rows] : n \in 0..MaxRows}

\* what the user types into the search box
Queries ==
  { << >>, <<"a">>, <<"A", "S">>, <<"s", "a">>, <<"o", "t", "c">>, <<"x">> }

\* the dashboard of a signed-in session showing a list the backend served
ViewsInit ==
  /\ token = Str(<<"t1">>)
  /\ user = ProfileOf(token)
  /\ loading = FALSE
  /\ medicines \in {Arr(list) : list \in RowLists}
  /\ server = medicines
  /\ analytics = Snapshot(server)
  /\ authMode = Null
  /\ toast = Null
  /\ storage = Stored(JSONstringify(Session(token, user)))
  /\ timers = 0
  /\ inflight = {}
  /\ authReq = NoAuthReq
  /\ failed = {}
  /\ nextBatch = 2
  /\ mounted = TRUE
  /\ uncaught = FALSE
  /\ submits = 1
  /\ persisted = Persisted(token, user)
  /\ gw = GwIdle
  /\ medicineForm = DefaultForm
  /\ searchQuery = EmptyString
  /\ createReq = NoCreate
  /\ creates = 0

\* onChange={(e) => setSearchQuery(e.target.value)}
SetSearchQuery(q) ==
  /\ mounted /\ authenticated
  /\ searchQuery' = Str(q)
  /\ searchQuery' # searchQuery
  /\ UNCHANGED <<medicineForm, createReq, creates, server, medicines, toast, timers>>
  /\ UNCHANGED sessionVars

ViewsNext == \E q \in Queries : SetSearchQuery(q)

SpecViews == ViewsInit /\ [][ViewsNext]_vars

----------------------------------------------------------------------------
(* C1: signOut clears the session and everything cached with it *)

\* C1: in the state right after signOut the token is empty, the user and the
\* analytics snapshot are absent, the medicine list is empty, nothing is stored
\* under the session key, and the app is unauthenticated.
C1_SignOutClearsAll ==
  [][SignOut =>
       /\ token' = EmptyString
       /\ user' = Null
       /\ medicines' = Arr(<< >>)
       /\ analytics' = Null
       /\ storage' = Absent
       /\ ~authenticated']_vars

\* signOut has just acted on a session (its notice is up, the fetches of the
\* session are still on their way) and has left everything cleared
C1_Witness ==
  /\ toast = Toast(<<"You have signed out.">>, "info")
  /\ token = EmptyString /\ user = Null /\ storage = Absent
  /\ medicines = Arr(<< >>) /\ analytics = Null
  /\ \E q \in inflight : q.kind = "analytics"
  /\ ~\E q \in inflight : q.kind = "medicines"

----------------------------------------------------------------------------
(* C2: responses that outlive their session *)

\* C2: a response to a call issued under a token that is no longer the
\* session's (the session was signed out since) is discarded: the step that
\* settles it changes neither user nor medicines nor analytics.
C2_StaleResponseDiscarded ==
  [][\A req \in inflight :
       (mounted' /\ inflight' = inflight \ {req} /\ req.tok # token)
         => UNCHANGED <<user, medicines, analytics>>]_vars

----------------------------------------------------------------------------
(* C3, C4: the outcome of handleAuthSubmit *)

\* the step in which the pending submit settles
AuthSettles == authReq.pending /\ ~authReq'.pending /\ mounted'

\* a response that is not 2xx, or no response at all
AuthFails(r) == ~r.arrived \/ ~ResponseOk(r)

\* the notice C3 promises: the detail the backend wrote, else the fallback
PromisedNotice(r) ==
  IF r.arrived /\ r.body = ErrorBody("detail", <<"Invalid credentials">>)
  THEN <<"Invalid credentials">>
  ELSE <<"Authentication failed">>

\* C3 as stated: a failed login or register changes none of token, user, the
\* stored record, medicines and analytics, and shows an error notice with the
\* backend's detail, or "Authentication failed" when there is none.
C3_FailedLoginAsStated ==
  [][AuthSettles =>
       \A r \in AuthResponses :
         (AuthFails(r) /\ AuthSettle(r)) =>
           /\ UNCHANGED <<token, user, storage, medicines, analytics>>
           /\ toast' = Toast(PromisedNotice(r), "error")]_vars

\* the full name a profile carries
NameOf(usr) == OptGet(usr, "full_name").s

\* the first word of a name: its first run of atoms that are not spaces
FirstWord(name) ==
  LET words == {w \in {SubSeq(name, i, j) : i \in 1..Len(name), j \in 1..Len(name)} :
                  /\ Len(w) > 0
                  /\ \A x \in 1..Len(w) : w[x] # " "}
      starts(w) == {i \in 1..Len(name) :
                      /\ i + Len(w) - 1 <= Len(name)
                      /\ SubSeq(name, i, i + Len(w) - 1) = w
                      /\ (i + Len(w) > Len(name) \/ name[i + Len(w)] = " ")
                      /\ \A x \in 1..(i - 1) : name[x] = " "}
  IN IF \E w \in words : starts(w) # {}
     THEN CHOOSE w \in words : starts(w) # {}
     ELSE << >>

\* what a successful login or registration answering {access_token: t, user: u}
\* leaves behind, the greeting aside
SessionAdopted(t, u) ==
  /\ token' = t
  /\ user' = u
  /\ storage'.present /\ JSONparse(storage'.raw) = [ok |-> TRUE, v |-> Session(t, u)]
  /\ toast' = Toast(IF authReq.mode = Str(<<"register">>)
                    THEN <<"Registration successful">>
                    ELSE <<"Logged in successfully">>, "info")

\* C4 as stated: after a successful login or registration answering
\* {access_token: t, user: u} the token is t, the user is u, the stored record
\* is {token: t, user: u}, a success notice is up and the greeting is "Hey, "
\* followed by the first word of u.full_name.
C4_LoginAdoptedAsStated ==
  [][AuthSettles =>
       \A t \in Tokens :
         AuthSettle(Response(200, LoginBody(t, ProfileOf(t)))) =>
           /\ SessionAdopted(t, ProfileOf(t))
           /\ greeting(user') = <<"Hey, ">> \o FirstWord(NameOf(ProfileOf(t)))]_vars

----------------------------------------------------------------------------
(* C5: persist, then restore *)

\* C5: the restore at startup gives back the token and the user of the session
\* that was persisted last; from storage that is absent, is not JSON or holds
\* no token it leaves the app unauthenticated; no error leaves the effect.
C5_RestoreRoundTrip ==
  [][Mount =>
       /\ persisted.set => (token' = persisted.token /\ user' = persisted.user)
       /\ storage \in InitialStorages => (token' = EmptyString /\ user' = Null)
       /\ ~uncaught']_vars

\* a page that was reloaded over the record {token, user: null} that an empty
\* profile answer had persisted: the restore has brought back that token and
\* that user, and the warm-up of the restored session is on its way (a login
\* never leaves a null user next to a profile call still on its way)
C5_Witness ==
  /\ mounted /\ authenticated /\ authMode = Null
  /\ persisted.set /\ token = persisted.token /\ user = persisted.user
  /\ user = Null /\ storage = Stored(JSONstringify(Session(token, Null)))
  /\ \A kd \in Kinds : \E q \in inflight : q.kind = kd /\ q.tok = token

----------------------------------------------------------------------------
(* C10: the warm-up after the token appears *)

\* C10: when the token becomes non-empty the three fetches are issued under
\* it; the step in which one of them settles never shows a notice and never
\* touches the token; a fetch that fails changes nothing, and a fetch that
\* succeeds has its result applied, whatever happened to the others.
C10_WarmUpBestEffort ==
  [][/\ (~authenticated /\ authenticated') =>
          \A kd \in Kinds : \E q \in inflight' \ inflight : q.kind = kd /\ q.tok = token'
     /\ \A req \in inflight :
          (mounted' /\ inflight' = inflight \ {req}) =>
            /\ toast' = toast /\ timers' = timers /\ token' = token
            /\ \A r \in FetchResponses(req) :
                 \/ IF r.arrived /\ ResponseOk(r)
                    THEN LET v == IF r.status = 204 THEN Null ELSE ServedValue(req)
                         IN CASE req.kind = "profile" -> user' = v
                              [] req.kind = "medicines" -> medicines' = v
                              [] OTHER -> analytics' = v
                    ELSE UNCHANGED <<user, medicines, analytics, storage>>
                 \/ ~FetchSettle(req, r)]_vars

\* a warm-up one call of which has failed (its run is marked failed, no notice
\* is up, the session stands) while the list of another call is applied and
\* the third call is still on its way
C10_Witness ==
  /\ authenticated /\ user # Null /\ submits = 1
  /\ toast = Null /\ timers = 0
  /\ medicines = Inventory
  /\ \E q \in inflight :
       /\ q.batch \in failed /\ q.kind = "analytics" /\ q.tok = token
       /\ inflight = {q}

----------------------------------------------------------------------------
(* C11, C12, C15: the add-medicine form *)

\* the detail of Unauthorized is up as an error notice and the list is untouched
DetailNoticed ==
  /\ toast' = Toast(<<"Invalid credentials">>, "error")
  /\ medicines' = medicines

\* C11 as stated: whenever a call of /api/medicines is answered with 401 and
\* a detail, be it the warm-up's fetch, the form's POST or the fetch after
\* the POST, a notice with that detail is shown and medicines is unchanged.
C11_UnauthorizedNoticedAsStated ==
  [][/\ \A req \in inflight :
          (req.kind = "medicines" /\ FetchSettle(req, Unauthorized)) => DetailNoticed
     /\ CreatePosted(Unauthorized) => DetailNoticed
     /\ CreateRefetched(Unauthorized) => DetailNoticed]_vars

\* C11 amended: when the POST of handleCreateMedicine or the fetch that
\* follows it is answered with 401 and a detail, a notice with that detail is
\* shown and medicines is unchanged; when the warm-up's fetch is answered so,
\* medicines is unchanged and the notice on display stays as it was.
C11_UnauthorizedNoticed ==
  [][/\ \A req \in inflight :
          (req.kind = "medicines" /\ FetchSettle(req, Unauthorized)) =>
            (toast' = toast /\ medicines' = medicines)
     /\ CreatePosted(Unauthorized) => DetailNoticed
     /\ CreateRefetched(Unauthorized) => DetailNoticed]_vars

\* the warm-up has loaded the list, a medicine was added, and the fetch after
\* the POST was refused: the detail is up and the list is the one loaded before
C11_Witness ==
  /\ toast = Toast(<<"Invalid credentials">>, "error")
  /\ timers = 2
  /\ creates = 1 /\ createReq = NoCreate
  /\ Len(server.items) = Len(Inventory.items) + 1
  /\ medicines = Inventory
  /\ inflight = {}

\* the fetch after the POST is answered with the list the backend holds
RefetchSucceeds == CreateRefetched(OkResponse(RefetchCall))

\* row is one of the items of the list
Listed(row, list) == \E i \in 1..Len(list.items) : list.items[i] = row

\* C12: once a medicine with quantity 5 and reorder_level 10 has been created
\* and the fetch after the POST has completed, the created row is in the list
\* lowStock is built from (analytics.low_stock_items), it is in medicines, and
\* its low-stock flag is true.
C12_CreatedLowStockListed ==
  [][(/\ createReq.phase = "refetch"
      /\ createReq.form.quantity = Num(5)
      /\ createReq.form.reorder_level = Num(10)
      /\ RefetchSucceeds) =>
       LET row == CreatedRow(PostBody(createReq.form))
       IN /\ Listed(row, medicines')
          /\ isLowStock(row)
          /\ Listed(row, lowStock(analytics'))]_vars

\* C15: after each successful submission of the add-medicine form (the POST
\* and the fetch after it both succeeded) the draft equals its defaults, unit
\* and expiry_date included, whatever the user had entered.
C15_FormResetToDefaults ==
  [][(\E r \in FetchResponses(RefetchCall) :
        CreateRefetched(r) /\ fetchWithAuth(r).k = "resolve")
       => medicineForm' = DefaultForm]_vars

----------------------------------------------------------------------------
(* C13, C14: the derived views *)

\* two letters that differ at most in case
SameLetter(x, y) ==
  x = y \/ (x \in DOMAIN LowerOf /\ LowerOf[x] = y) \/ (y \in DOMAIN LowerOf /\ LowerOf[y] = x)

\* text contains q, case aside
Contains(text, q) ==
  \E o \in 0..Len(text) :
    /\ o + Len(q) <= Len(text)
    /\ \A j \in 1..Len(q) : SameLetter(text[o + j], q[j])

\* the positions of medicines whose name, generic name or category contains q
Hits(q) ==
  {i \in 1..Len(medicines.items) :
     \E f \in {"name", "generic_name", "category"} :
       Contains(OptGet(medicines.items[i], f).s, q)}

\* the k-th smallest of a set of positions
Kth(positions, k) ==
  CHOOSE i \in positions : Cardinality({j \in positions : j <= i}) = k

\* C13: the filtered list holds exactly the rows of medicines whose name,
\* generic_name or category contains the query case-insensitively, in their
\* original order; for the empty query it is medicines itself.
C13_FilterKeepsMatchesInOrder ==
  /\ Len(filteredMedicines.items) = Cardinality(Hits(searchQuery.s))
  /\ \A k \in 1..Len(filteredMedicines.items) :
       filteredMedicines.items[k] = medicines.items[Kth(Hits(searchQuery.s), k)]
  /\ searchQuery = EmptyString => filteredMedicines = medicines

\* the query "AS" typed over a list of two rows, of which only the second,
\* "Asa", contains it (in another case): the filter keeps that row alone
C13_Witness ==
  /\ searchQuery = Str(<<"A", "S">>)
  /\ Len(medicines.items) = 2
  /\ OptGet(medicines.items[1], "name") = Str(<<"c">>)
  /\ OptGet(medicines.items[2], "name") = Str(<<"A", "s", "a">>)
  /\ filteredMedicines = Arr(<<medicines.items[2]>>)

\* the reorder level of a row is unset or 0
Falsy(level) == level \in {Null, Undefined, Num(0)}

\* C14: the low-stock flag of a row is true iff quantity <= reorder_level,
\* with 10 in place of a reorder_level that is unset or 0.
C14_LowStockFlag ==
  \A i \in 1..Len(medicines.items) :
    LET row == medicines.items[i]
        level == OptGet(row, "reorder_level")
    IN isLowStock(row) <=>
         (OptGet(row, "quantity").n <= (IF Falsy(level) THEN 10 ELSE level.n))

\* a list with a row of quantity 10 and reorder_level 0, flagged low through
\* the default, next to a row of quantity 11 and no reorder_level, not flagged
C14_Witness ==
  /\ Len(medicines.items) = 2
  /\ OptGet(medicines.items[1], "quantity") = Num(10)
  /\ OptGet(medicines.items[1], "reorder_level") = Num(0)
  /\ isLowStock(medicines.items[1])
  /\ OptGet(medicines.items[2], "quantity") = Num(11)
  /\ OptGet(medicines.items[2], "reorder_level") = Null
  /\ ~isLowStock(medicines.items[2])

----------------------------------------------------------------------------
(* C16 - C19: notices, the stored record, the list, the loading flag *)

\* C16: a notice stays up until its own timer comes due or a newer notice
\* replaces it.  The timers all run 4 seconds, so they come due in the order
\* of their notices and the notice on display owns the last pending one: a
\* timer that comes due while another is still pending is an older notice's,
\* and must leave the notice on display alone.
C16_NoticeOutlivesOlderTimers ==
  [][TimerFire => (timers' = 0 \/ toast' = toast)]_vars

\* the token of the record in sessionStorage, undefined when there is no
\* record or it holds none
StoredToken ==
  IF storage.present /\ JSONparse(storage.raw).ok
  THEN OptGet(JSONparse(storage.raw).v, "token")
  ELSE Undefined

\* C17: once the startup restore has run, a session record in sessionStorage
\* carries the token that is in memory; in particular none is stored while
\* the app is signed out.
C17_StoredTokenIsCurrent ==
  (mounted /\ Truthy(StoredToken)) => StoredToken = token

\* C18: medicines is always a list, whatever the backend answers.
C18_MedicinesIsAList == medicines.k = "arr"

\* C19: the loading flag is up exactly while a login or register submit is
\* awaiting its answer: it is raised by the submit, stays up while the call
\* is pending, and is down again after the call settles, whatever the answer
\* (success, unparsable success body, non-2xx, no answer at all).
C19_LoadingFollowsSubmit ==
  [][/\ SubmitAuth => loading'
     /\ loading' <=> authReq'.pending
     /\ AuthSettles => \A r \in AuthResponses : AuthSettle(r) => ~loading']_vars

\* a login whose 200 answer could not be parsed has finished: the parser's
\* message is up as an error, and the flag is down again
C19_Witness ==
  /\ toast = Toast(SyntaxErrorMessage, "error")
  /\ submits = 1 /\ ~authReq.pending
  /\ ~loading /\ ~authenticated

----------------------------------------------------------------------------
(* C6 - C9: the gateway *)

GwSettled == gw.phase = "settled" /\ gw.r.arrived

\* C6: a successful response other than 204 whose body is not JSON makes the
\* call resolve to an empty result instead of failing with the parse error.
C6_ParseFailureResolvesEmpty ==
  (GwSettled /\ ResponseOk(gw.r) /\ gw.r.status # 204 /\ ~JSONparse(gw.r.body).ok)
    => (gw.outcome.k = "resolve" /\ ~Truthy(gw.outcome.v))

\* the message C7 promises for a response that is not ok: the detail the
\* backend wrote if it wrote one, else the message it wrote if it wrote one,
\* else "Request failed (<status>)"
PromisedMessage(r) ==
  LET written == {dm \in DetailChoices \X MessageChoices : r.body = ErrorJson(dm[1], dm[2])}
  IN IF written = {} THEN RequestFailed(r.status)
     ELSE LET dm == CHOOSE x \in written : TRUE
          IN IF dm[1] \in {Undefined, EmptyString}
             THEN (IF dm[2] = Undefined THEN RequestFailed(r.status) ELSE dm[2].s)
             ELSE dm[1].s

\* C7: a response that is not ok makes the call fail with the body's detail
\* if it has one, else the body's message if it has one, else "Request failed
\* (<status>)" (also for a body that is not JSON); the call itself changes no
\* state of the component.
C7_RejectsWithServerText ==
  (GwSettled /\ ~ResponseOk(gw.r))
    => /\ gw.outcome = Reject(PromisedMessage(gw.r))
       /\ user = Null /\ medicines = Arr(<< >>) /\ analytics = Null
       /\ storage = Absent /\ toast = Null /\ ~loading

\* a 401 whose body carries both fields has been turned into its detail
C7_Witness ==
  /\ GwSettled /\ gw.r.status = 401
  /\ gw.r.body = ErrorJson(Str(<<"Not authenticated">>), Str(<<"Server says no">>))
  /\ gw.outcome = Reject(<<"Not authenticated">>)

\* C8: a 204 makes the call resolve to an empty result, whatever the endpoint
\* and whatever the body: the body is not parsed and no error is raised.
C8_NoContentResolvesEmpty ==
  (GwSettled /\ gw.r.status = 204) => gw.outcome = Resolve(Null)

\* /api/analytics/dashboard answered 204 with an empty body, which is no JSON
C8_Witness ==
  /\ GwSettled /\ gw.r.status = 204 /\ gw.r.body = << >>
  /\ gw.path = "/api/analytics/dashboard"
  /\ ~JSONparse(gw.r.body).ok
  /\ gw.outcome = Resolve(Null)

\* C9: the request carries Content-Type: application/json and, under a token,
\* Authorization: Bearer <token>, except that a header the caller supplies
\* is sent with the caller's value.
C9_CallerHeadersWin ==
  gw.phase \in {"sent", "settled"} =>
    LET supplied == IF gw.options.hasHeaders THEN DOMAIN gw.options.headers ELSE {}
    IN /\ DOMAIN gw.headers =
            supplied \cup {"Content-Type"}
                     \cup (IF authenticated THEN {"Authorization"} ELSE {})
       /\ \A n \in DOMAIN gw.headers :
            gw.headers[n] =
              IF n \in supplied THEN gw.options.headers[n]
              ELSE IF n = "Content-Type" THEN <<"application/json">>
              ELSE <<"Bearer ">> \o token.s

====
